---- MODULE Spec2Model ----
(***************************************************************************)
(* The crawl engine of ipfs-search (crawler/crawler.go) run by concurrent  *)
(* hash and file consumers (main.go), against an index, a broker, a        *)
(* gateway and a metadata extractor.                                       *)
(***************************************************************************)
EXTENDS Integers, Sequences, FiniteSets, TLC

VARIABLES hashes, files, index, worker, crashed, events, okDone, fsize,
          firstCrawls, sup

vars == <<hashes, files, index, worker, crashed, events, okDone, fsize, firstCrawls, sup>>

(* ------------------------------ constants ------------------------------ *)

partialSize == 262144

metadataMaxSize == 52428800

(* ------------------------------- bounds -------------------------------- *)

\* events of the environment per run: a fault (an error of the index, the broker,
\* the gateway or the extractor), an `add` command, a message delivered once more
MaxEvents == 1

\* the largest number of consumers of one queue a configuration asks for
MaxWorkers == 2

\* the largest number of root tasks published before a crawl that is run to
\* its end
MaxRoots == 2

(* ------------------------------- world --------------------------------- *)

HashWs == {"h1"}

FileWs == {"f1", "f2"}

Workers == HashWs \cup FileWs

\* d: a directory, e: a directory of one block, f: a file, s: neither
Hashes == {"d", "e", "f", "s"}

Roots == {"d", "e", "f", "s"}

FileSizes == {0, 10, partialSize, metadataMaxSize, metadataMaxSize + 1}

\* shell.UnixLsLink
Link(h, n, s, t) == [Hash |-> h, Name |-> n, Size |-> s, Type |-> t]

\* the *shell.UnixLsObject that sh.FileList returns for /ipfs/<hash>
FileList(h, fs) ==
  CASE h = "d" -> [Type |-> "Directory", Size |-> 4096,
                   Links |-> << Link("f", "a", fs, "File"),
                                Link("e", "sub", partialSize, "Directory"),
                                Link("s", "l", 0, "Symlink") >>]
    [] h = "e" -> [Type |-> "Directory", Size |-> partialSize,
                   Links |-> << Link("f", "b", fs, "File"),
                                Link("f", "c", fs, "File") >>]
    [] h = "f" -> [Type |-> "File", Size |-> fs, Links |-> << >>]
    [] OTHER   -> [Type |-> "Symlink", Size |-> 0, Links |-> << >>]

(* ------------------------------- data ---------------------------------- *)

\* crawler.Args (ParentName is legacy and never read by the crawl)
Args(h, n, s, p) == [Hash |-> h, Name |-> n, Size |-> s, ParentHash |-> p]

NoArgs == Args("", "", 0, "")

\* indexer.Reference
Reference(n, p) == [Name |-> n, ParentHash |-> p]

\* a Go slice of references: nil, or a list
NilRefs == [nil |-> TRUE, list |-> << >>]

Refs(l) == [nil |-> FALSE, list |-> l]

ParentsOf(l) == {l[k].ParentHash : k \in DOMAIN l}

RefSet(l) == {l[k] : k \in DOMAIN l}

(* ------------------------------- errors -------------------------------- *)

\* an error value: kind is the dynamic type, the flags are what handleError reads
Err(k, p, to, tmp, in) == [kind |-> k, proto |-> p, timeout |-> to, temporary |-> tmp, inner |-> in]

NoErr == Err("nil", FALSE, FALSE, FALSE, "none")

IndexErr == Err("index", FALSE, FALSE, FALSE, "none")

PublishErr == Err("amqp", FALSE, FALSE, FALSE, "none")

TooLargeErr == Err("fmt", FALSE, FALSE, FALSE, "toolarge")

\* *url.Error values of the gateway client and of http.Client.Get
UrlErrs ==
  { Err("url", FALSE, TRUE, FALSE, "none"),
    Err("url", FALSE, TRUE, TRUE, "none"),
    Err("url", FALSE, FALSE, TRUE, "none"),
    Err("url", FALSE, FALSE, FALSE, "op:dial"),
    Err("url", FALSE, FALSE, FALSE, "op:read"),
    Err("url", FALSE, FALSE, FALSE, "op:write"),
    Err("url", FALSE, FALSE, FALSE, "errno:ECONNREFUSED"),
    Err("url", FALSE, FALSE, FALSE, "errno:EPIPE"),
    Err("url", FALSE, FALSE, FALSE, "none") }

\* errors of sh.FileList: *shell.Error (with or without "proto" in the text), *url.Error
ListErrs ==
  { Err("shell", TRUE, FALSE, FALSE, "none"),
    Err("shell", FALSE, FALSE, FALSE, "none") } \cup UrlErrs

\* errors of getMetadata: *url.Error of client.Get, the status error, a JSON error
MetaErrs ==
  { Err("fmt", FALSE, FALSE, FALSE, "status"),
    Err("json", FALSE, FALSE, FALSE, "none") } \cup UrlErrs

(* --------------------------- pure functions ---------------------------- *)

\* crawler.go:62
hashURL(hash) == <<"ipfs", hash>>

\* updateReferences without the test of line 73: a reference is added for a task
\* that has no parent
updateReferences_NoEmptyCheck(references, name, parentHash) ==
  LET refs == IF references.nil THEN << >> ELSE references.list IN
  IF \E k \in DOMAIN refs : refs[k].ParentHash = parentHash
    THEN [references |-> Refs(refs), updated |-> FALSE]
    ELSE [references |-> Refs(Append(refs, Reference(name, parentHash))), updated |-> TRUE]

\* updateReferences with line 79 comparing the names instead of the parents
updateReferences_ByName(references, name, parentHash) ==
  LET refs == IF references.nil THEN << >> ELSE references.list IN
  IF parentHash = ""
    THEN [references |-> Refs(refs), updated |-> FALSE]
    ELSE IF \E k \in DOMAIN refs : refs[k].Name = name
      THEN [references |-> Refs(refs), updated |-> FALSE]
      ELSE [references |-> Refs(Append(refs, Reference(name, parentHash))), updated |-> TRUE]

\* crawler.go:67-91: the references to store and whether one was added
updateReferences(references, name, parentHash) ==
  LET refs == IF references.nil THEN << >> ELSE references.list IN
  IF parentHash = ""
    THEN [references |-> Refs(refs), updated |-> FALSE]
    ELSE IF \E k \in DOMAIN refs : refs[k].ParentHash = parentHash
      THEN [references |-> Refs(refs), updated |-> FALSE]
      ELSE [references |-> Refs(Append(refs, Reference(name, parentHash))), updated |-> TRUE]

\* the retry decision with Temporary() asked before Timeout()
RetryUrlError_TemporaryFirst(err) ==
  /\ err.kind = "url"
  /\ \/ err.temporary
     \/ /\ ~err.timeout
        /\ err.inner \in {"op:dial", "op:read", "errno:ECONNREFUSED"}

\* crawler.go:108-143: the retry decision for an error that is no protocol error
RetryUrlError(err) ==
  /\ err.kind = "url"
  /\ ~err.timeout
  /\ \/ err.temporary
     \/ err.inner \in {"op:dial", "op:read", "errno:ECONNREFUSED"}

\* handleError taking every error for a protocol error
handleError_PanicOnAny(err) ==
  [panic |-> err # NoErr, tryAgain |-> FALSE, err |-> err]

\* crawler.go:94-144: panic (after indexing the hash as invalid), try again, or
\* the error to return
handleError(err) ==
  IF err.kind = "shell" /\ err.proto
    THEN [panic |-> TRUE, tryAgain |-> FALSE, err |-> err]
    ELSE IF RetryUrlError(err)
      THEN [panic |-> FALSE, tryAgain |-> TRUE, err |-> NoErr]
      ELSE [panic |-> FALSE, tryAgain |-> FALSE, err |-> err]

\* crawler.go:346-351: the path the extractor is asked for
MetadataPath(a) ==
  IF a.Name # "" /\ a.ParentHash # "" THEN <<"ipfs", a.ParentHash, a.Name>> ELSE hashURL(a.Hash)

(* ------------------------------- index --------------------------------- *)

NoDoc == [exists |-> FALSE, type |-> "", fields |-> << >>]

\* indexer.GetReferences: the stored references and type; nil references when the
\* hash has no document
GetReferences(idx, hash) ==
  IF ~idx[hash].exists
    THEN [references |-> NilRefs, itemType |-> ""]
    ELSE [references |-> Refs(IF "references" \in DOMAIN idx[hash].fields
                                THEN idx[hash].fields["references"] ELSE << >>),
          itemType |-> idx[hash].type]

\* indexer.IndexItem: upsert, the given properties replacing the stored ones
IndexItem(idx, type, hash, properties) ==
  [idx EXCEPT ![hash] = [exists |-> TRUE, type |-> type, fields |-> properties @@ idx[hash].fields]]

(* ------------------------------ workers -------------------------------- *)

IdleW ==
  [pc |-> "idle", args |-> NoArgs, references |-> NilRefs, alreadyIndexed |-> FALSE,
   itemType |-> "", i |-> 0, err |-> NoErr, metadata |-> << >>,
   calls |-> 0, reads |-> 0, pubs |-> << >>, writes |-> << >>,
   hadDoc |-> FALSE, again |-> FALSE, found |-> FALSE, stored |-> << >>,
   readOk |-> FALSE, retries |-> 0, lastErr |-> NoErr]

QueueOf(w) == IF w \in HashWs THEN "hashes" ELSE "files"

TaskKey(w, a) == <<QueueOf(w), a.Hash, a.ParentHash>>

\* one publish, as the task's log keeps it
Pub(q, a, ok) == [queue |-> q, args |-> a, ok |-> ok]

\* one upsert, as the task's log keeps it
Write(t, h, props, ok) == [type |-> t, hash |-> h, properties |-> props, ok |-> ok]

\* a fault is allowed while the budget lasts
MayFail(ok) == ok \/ events < MaxEvents

Spend(ok) == IF ok THEN events ELSE events + 1

\* the supervisor of the crawl: Start has returned nil with one hash consumer
\* and two file consumers
Running ==
  [pc |-> "started", cfg |-> [HashWorkers |-> Cardinality(HashWs), FileWorkers |-> Cardinality(FileWs)],
   opened |-> 4, addCh |-> 1, declared |-> <<"hashes", "files">>,
   openChannels |-> <<1, 2, 3, 4>>,
   name |-> "files", ch |-> 4, i |-> 2,
   consumers |-> << [queue |-> "hashes", ch |-> 2], [queue |-> "files", ch |-> 3],
                    [queue |-> "files", ch |-> 4] >>,
   ret |-> "nil", k |-> 0, closeCalls |-> {}, closeErr |-> FALSE, by |-> ""]

TypeOK ==
  /\ crashed \in BOOLEAN
  /\ events \in 0..MaxEvents
  /\ fsize \in FileSizes
  /\ \A w \in Workers : worker[w].pc \in
       {"idle", "refwrite", "list", "invalid", "pubfile", "links",
        "indexdir", "meta", "indexfile", "done", "panic"}

Init ==
  /\ hashes = << Args("d", "", 0, ""), Args("f", "", 0, "") >>
  /\ files = << >>
  /\ index = [h \in Hashes |-> NoDoc]
  /\ worker = [w \in Workers |-> IdleW]
  /\ crashed = FALSE
  /\ events = 0
  /\ okDone = {}
  /\ fsize \in FileSizes
  /\ firstCrawls = [h \in Hashes |-> 0]
  /\ sup = Running

(* ------------------------- consumer and command ------------------------ *)

\* main.go:72-101: `add <hash>` publishes a root task to the hashes queue
add(h) ==
  /\ events < MaxEvents
  /\ events' = events + 1
  /\ \E ok \in BOOLEAN :
       hashes' = IF ok THEN Append(hashes, Args(h, "", 0, "")) ELSE hashes
  /\ UNCHANGED <<files, index, worker, crashed, okDone, fsize, firstCrawls, sup>>

\* main.go:150-159 and 177-187: the worker when its consumer hands it a task
\* (again: a delivery of the same task has completed without error before;
\* hadDoc: the index holds a document for the hash as the crawl starts)
Deliver(w, a) ==
  [IdleW EXCEPT !.pc = "start", !.args = a, !.again = TaskKey(w, a) \in okDone,
                !.hadDoc = index[a.Hash].exists]

\* the consumer after the crawl function returned: ack on success, nack on error;
\* the broker may deliver the message once more
Finish(w) ==
  /\ ~crashed
  /\ worker[w].pc = "done"
  /\ \E rq \in BOOLEAN :
       /\ rq => events < MaxEvents
       /\ events' = IF rq THEN events + 1 ELSE events
       /\ hashes' = IF rq /\ w \in HashWs THEN Append(hashes, worker[w].args) ELSE hashes
       /\ files' = IF rq /\ w \in FileWs THEN Append(files, worker[w].args) ELSE files
  /\ okDone' = IF worker[w].err = NoErr
                 THEN okDone \cup {TaskKey(w, worker[w].args)} ELSE okDone
  /\ worker' = [worker EXCEPT ![w] = IdleW]
  /\ UNCHANGED <<index, crashed, fsize, firstCrawls, sup>>

(* --------------------------- indexReferences --------------------------- *)

\* lines 155-159 without the assignment of line 158
AlreadyIndexed_NeverSet(references) == FALSE

\* lines 155-159 with alreadyIndexed set whatever the read returned
AlreadyIndexed_Always(references) == TRUE

\* crawler.go:155-159
AlreadyIndexed(references) == ~references.nil

\* crawler.go:146-183 up to the upsert: the worker after a read that returned
\* no error; next is "refwrite" (upsert the new list), "dedup" (stop), or
\* "fresh" (crawl)
indexReferences(st, idx) ==
  LET g == GetReferences(idx, st.args.Hash)
      already == AlreadyIndexed(g.references)
      u == updateReferences(g.references, st.args.Name, st.args.ParentHash)
  IN [st EXCEPT !.references = u.references,
                !.alreadyIndexed = already,
                !.itemType = g.itemType,
                !.reads = @ + 1,
                !.found = idx[st.args.Hash].exists,
                !.stored = g.references.list,
                !.readOk = TRUE,
                !.pc = IF already THEN (IF u.updated THEN "refwrite" ELSE "dedup")
                                  ELSE "fresh"]

\* crawler.go:150-152: GetReferences failed
ReadFailed(st) == [st EXCEPT !.reads = @ + 1, !.err = IndexErr, !.pc = "done"]

\* crawler.go:163-174, then 193-195 or 332-334: upsert the stored type with the
\* new references, and stop
RefWrite(w) ==
  /\ ~crashed
  /\ worker[w].pc = "refwrite"
  /\ LET st == worker[w]
         props == "references" :> st.references.list IN
     \E ok \in BOOLEAN :
       /\ MayFail(ok)
       /\ events' = Spend(ok)
       /\ index' = IF ok THEN IndexItem(index, st.itemType, st.args.Hash, props) ELSE index
       /\ worker' = [worker EXCEPT ![w] =
            [st EXCEPT !.writes = Append(@, Write(st.itemType, st.args.Hash, props, ok)),
                       !.alreadyIndexed = IF ok THEN @ ELSE FALSE,
                       !.references = IF ok THEN @ ELSE NilRefs,
                       !.err = IF ok THEN NoErr ELSE IndexErr,
                       !.pc = "done"]]
  /\ UNCHANGED <<hashes, files, crashed, okDone, fsize, firstCrawls, sup>>

(* ------------------------------ CrawlHash ------------------------------ *)

\* the guard without the test of the parent
PartialGuard_SizeOnly(size, parentHash) == size = partialSize

\* the guard removed
PartialGuard_Never(size, parentHash) == FALSE

\* crawler.go:273 and 319: unreferenced content of exactly one block
PartialGuard(size, parentHash) == size = partialSize /\ parentHash = ""

\* the loop over the links ending one link early
MoreLinks_OffByOne(i, links) == i < Len(links)

\* crawler.go:236: the loop over the links goes on while there is a link left
MoreLinks(i, links) == i <= Len(links)

\* crawler.go:236 and 265-283: the worker after link i-1 has been handled
AfterLink(st, list, i) ==
  IF MoreLinks(i, list.Links)
    THEN [st EXCEPT !.i = i, !.pc = "links"]
    ELSE IF PartialGuard(list.Size, st.args.ParentHash)
      THEN [st EXCEPT !.i = i, !.pc = "done"]
      ELSE [st EXCEPT !.i = i, !.pc = "indexdir"]

\* the branch on the type with the File case falling to the default
AfterList_FileSkipped(st, list) ==
  CASE list.Type = "Directory" -> AfterLink(st, list, 1)
    [] OTHER -> [st EXCEPT !.pc = "done"]

\* the branch on the type with a default case that never returns
AfterList_DefaultBlocks(st, list) ==
  CASE list.Type = "File" -> [st EXCEPT !.pc = "pubfile"]
    [] list.Type = "Directory" -> AfterLink(st, list, 1)
    [] OTHER -> [st EXCEPT !.pc = "skipped"]

\* crawler.go:219-233, 234, 285-287: the branch on the type of the listing
AfterList(st, list) ==
  CASE list.Type = "File" -> [st EXCEPT !.pc = "pubfile"]
    [] list.Type = "Directory" -> AfterLink(st, list, 1)
    [] OTHER -> [st EXCEPT !.pc = "done"]

\* the retry handing the task back to its consumer instead of calling again
TryAgain_Return(st) == [st EXCEPT !.retries = @ + 1, !.pc = "done"]

\* crawler.go:203-213 and 353-363: tryAgain is true, the loop sleeps and goes
\* round again inside the same call of the crawl function
TryAgain(st) == [st EXCEPT !.retries = @ + 1]

\* crawler.go:186-195: CrawlHash reads the references of the hash
CrawlHashStart(w) ==
  /\ ~crashed
  /\ w \in HashWs
  /\ worker[w].pc = "idle"
  /\ hashes # << >>
  /\ hashes' = Tail(hashes)
  /\ \E ok \in BOOLEAN :
       /\ MayFail(ok)
       /\ events' = Spend(ok)
       /\ LET st == Deliver(w, Head(hashes))
              r == indexReferences(st, index) IN
          worker' = [worker EXCEPT ![w] =
            IF ~ok THEN ReadFailed(st)
            ELSE CASE r.pc = "dedup" -> [r EXCEPT !.pc = "done"]
                   [] r.pc = "fresh" -> [r EXCEPT !.pc = "list"]
                   [] OTHER -> r]
  /\ UNCHANGED <<files, index, crashed, okDone, fsize, firstCrawls, sup>>

\* crawler.go:203-217: one round of the retry loop around sh.FileList
CrawlHashList(w) ==
  /\ ~crashed
  /\ worker[w].pc = "list"
  /\ \E e \in {NoErr} \cup ListErrs :
       /\ MayFail(e = NoErr)
       /\ events' = Spend(e = NoErr)
       /\ LET st == [worker[w] EXCEPT !.calls = @ + 1, !.lastErr = e]
              h == handleError(e) IN
          worker' = [worker EXCEPT ![w] =
            CASE h.panic -> [st EXCEPT !.err = e, !.pc = "invalid"]
              [] h.tryAgain -> TryAgain(st)
              [] h.err # NoErr -> [st EXCEPT !.err = h.err, !.pc = "done"]
              [] OTHER -> AfterList(st, FileList(st.args.Hash, fsize))]
  /\ firstCrawls' = IF worker[w].calls = 0 /\ worker[w].args.ParentHash = ""
                      THEN [firstCrawls EXCEPT ![worker[w].args.Hash] = @ + 1]
                      ELSE firstCrawls
  /\ UNCHANGED <<hashes, files, index, crashed, okDone, fsize, sup>>

\* crawler.go:95-106: index the hash as invalid (the result is not looked at)
\* and panic, which ends the process
Panic(w) ==
  /\ ~crashed
  /\ worker[w].pc = "invalid"
  /\ LET st == worker[w]
         props == "error" :> "proto" IN
     \E ok \in BOOLEAN :
       /\ MayFail(ok)
       /\ events' = Spend(ok)
       /\ index' = IF ok THEN IndexItem(index, "invalid", st.args.Hash, props) ELSE index
       /\ worker' = [worker EXCEPT ![w] =
            [st EXCEPT !.writes = Append(@, Write("invalid", st.args.Hash, props, ok)),
                       !.pc = "panic"]]
  /\ crashed' = TRUE
  /\ UNCHANGED <<hashes, files, okDone, fsize, firstCrawls, sup>>

\* crawler.go:220-233: a file is handed to the files queue
CrawlHashFile(w) ==
  /\ ~crashed
  /\ worker[w].pc = "pubfile"
  /\ LET st == worker[w]
         list == FileList(st.args.Hash, fsize)
         args == Args(st.args.Hash, st.args.Name, list.Size, st.args.ParentHash) IN
     \E ok \in BOOLEAN :
       /\ MayFail(ok)
       /\ events' = Spend(ok)
       /\ files' = IF ok THEN Append(files, args) ELSE files
       /\ worker' = [worker EXCEPT ![w] =
            [st EXCEPT !.pubs = Append(@, Pub("files", args, ok)),
                       !.err = IF ok THEN NoErr ELSE PublishErr,
                       !.pc = "done"]]
  /\ UNCHANGED <<hashes, index, crashed, okDone, fsize, firstCrawls, sup>>

\* crawler.go:236-263: one link of a directory
CrawlHashLink(w) ==
  /\ ~crashed
  /\ worker[w].pc = "links"
  /\ LET st == worker[w]
         list == FileList(st.args.Hash, fsize)
         link == list.Links[st.i]
         args == Args(link.Hash, link.Name, link.Size, st.args.Hash) IN
     CASE link.Type = "File" ->
            \* 247-251: the error of fq.AddTask ends the task
            \E ok \in BOOLEAN :
              /\ MayFail(ok)
              /\ events' = Spend(ok)
              /\ files' = IF ok THEN Append(files, args) ELSE files
              /\ hashes' = hashes
              /\ worker' = [worker EXCEPT ![w] =
                   LET p == [st EXCEPT !.pubs = Append(@, Pub("files", args, ok))] IN
                   IF ok THEN AfterLink(p, list, st.i + 1)
                         ELSE [p EXCEPT !.err = PublishErr, !.pc = "done"]]
       [] link.Type = "Directory" ->
            \* 255-259: the result of hq.AddTask is dropped; err is still nil
            \E ok \in BOOLEAN :
              /\ MayFail(ok)
              /\ events' = Spend(ok)
              /\ hashes' = IF ok THEN Append(hashes, args) ELSE hashes
              /\ files' = files
              /\ worker' = [worker EXCEPT ![w] =
                   AfterLink([st EXCEPT !.pubs = Append(@, Pub("hashes", args, ok))],
                             list, st.i + 1)]
       [] OTHER ->
            \* 260-261: logged and skipped
            /\ worker' = [worker EXCEPT ![w] = AfterLink(st, list, st.i + 1)]
            /\ UNCHANGED <<hashes, files, events>>
  /\ UNCHANGED <<index, crashed, okDone, fsize, firstCrawls, sup>>

\* crawler.go:265-283: the directory document
CrawlHashIndex(w) ==
  /\ ~crashed
  /\ worker[w].pc = "indexdir"
  /\ LET st == worker[w]
         list == FileList(st.args.Hash, fsize)
         props == ("links" :> list.Links) @@ ("size" :> list.Size)
                    @@ ("references" :> st.references.list) IN
     \E ok \in BOOLEAN :
       /\ MayFail(ok)
       /\ events' = Spend(ok)
       /\ index' = IF ok THEN IndexItem(index, "directory", st.args.Hash, props) ELSE index
       /\ worker' = [worker EXCEPT ![w] =
            [st EXCEPT !.writes = Append(@, Write("directory", st.args.Hash, props, ok)),
                       !.err = IF ok THEN NoErr ELSE IndexErr,
                       !.pc = "done"]]
  /\ UNCHANGED <<hashes, files, crashed, okDone, fsize, firstCrawls, sup>>

(* ------------------------------ CrawlFile ------------------------------ *)

\* what the extractor returns for a file
Extracted == "title" :> "T"

\* the size gate with >= for the > of line 341
SizeGate_Inclusive(st) ==
  IF st.args.Size > 0
    THEN IF st.args.Size >= metadataMaxSize
           THEN [st EXCEPT !.err = TooLargeErr, !.pc = "done"]
           ELSE [st EXCEPT !.pc = "meta"]
    ELSE [st EXCEPT !.pc = "indexfile"]

\* the size gate without the test of line 340
SizeGate_FetchEmpty(st) ==
  IF st.args.Size > metadataMaxSize
    THEN [st EXCEPT !.err = TooLargeErr, !.pc = "done"]
    ELSE [st EXCEPT !.pc = "meta"]

\* crawler.go:338-344: the size gate of a file that is not indexed yet
SizeGate(st) ==
  IF st.args.Size > 0
    THEN IF st.args.Size > metadataMaxSize
           THEN [st EXCEPT !.err = TooLargeErr, !.pc = "done"]
           ELSE [st EXCEPT !.pc = "meta"]
    ELSE [st EXCEPT !.pc = "indexfile"]

\* crawler.go:318-344: the partial guard, then the references of the hash, then
\* the size gate
CrawlFileStart(w) ==
  /\ ~crashed
  /\ w \in FileWs
  /\ worker[w].pc = "idle"
  /\ files # << >>
  /\ files' = Tail(files)
  /\ LET st == Deliver(w, Head(files)) IN
     IF PartialGuard(st.args.Size, st.args.ParentHash)
       THEN /\ worker' = [worker EXCEPT ![w] = [st EXCEPT !.pc = "done"]]
            /\ events' = events
       ELSE \E ok \in BOOLEAN :
              /\ MayFail(ok)
              /\ events' = Spend(ok)
              /\ LET r == indexReferences(st, index) IN
                 worker' = [worker EXCEPT ![w] =
                   IF ~ok THEN ReadFailed(st)
                   ELSE CASE r.pc = "dedup" -> [r EXCEPT !.pc = "done"]
                          [] r.pc = "fresh" -> SizeGate(r)
                          [] OTHER -> r]
  /\ UNCHANGED <<hashes, index, crashed, okDone, fsize, firstCrawls, sup>>

\* crawler.go:353-367: one round of the retry loop around getMetadata
CrawlFileMeta(w) ==
  /\ ~crashed
  /\ worker[w].pc = "meta"
  /\ \E e \in {NoErr} \cup MetaErrs :
       /\ MayFail(e = NoErr)
       /\ events' = Spend(e = NoErr)
       /\ LET st == [worker[w] EXCEPT !.calls = @ + 1, !.lastErr = e]
              h == handleError(e) IN
          worker' = [worker EXCEPT ![w] =
            CASE h.panic -> [st EXCEPT !.err = e, !.pc = "invalid"]
              [] h.tryAgain -> TryAgain(st)
              [] h.err # NoErr -> [st EXCEPT !.err = h.err, !.pc = "done"]
              [] OTHER -> [st EXCEPT !.metadata = Extracted, !.pc = "indexfile"]]
  /\ UNCHANGED <<hashes, files, index, crashed, okDone, fsize, firstCrawls, sup>>

\* the properties without the assignment of line 393
FileProperties_NoReferences(st) == ("size" :> st.args.Size) @@ st.metadata

\* crawler.go:392-393: size and references are set in the extracted metadata
FileProperties(st) ==
  ("size" :> st.args.Size) @@ ("references" :> st.references.list) @@ st.metadata

\* crawler.go:395-403: the file document
CrawlFileIndex(w) ==
  /\ ~crashed
  /\ worker[w].pc = "indexfile"
  /\ LET st == worker[w]
         props == FileProperties(st) IN
     \E ok \in BOOLEAN :
       /\ MayFail(ok)
       /\ events' = Spend(ok)
       /\ index' = IF ok THEN IndexItem(index, "file", st.args.Hash, props) ELSE index
       /\ worker' = [worker EXCEPT ![w] =
            [st EXCEPT !.writes = Append(@, Write("file", st.args.Hash, props, ok)),
                       !.err = IF ok THEN NoErr ELSE IndexErr,
                       !.pc = "done"]]
  /\ UNCHANGED <<hashes, files, crashed, okDone, fsize, firstCrawls, sup>>

(* ------------------------------- restart ------------------------------- *)

WorkerOrder == <<"h1", "f1", "f2">>

RECURSIVE Unacked(_, _)
\* the tasks the workers of a set held, in the order of the workers
Unacked(ws, k) ==
  IF k > Len(WorkerOrder) THEN << >>
  ELSE (IF WorkerOrder[k] \in ws /\ worker[WorkerOrder[k]].pc # "idle"
          THEN << worker[WorkerOrder[k]].args >> ELSE << >>) \o Unacked(ws, k + 1)

\* the process is started again; the broker delivers again what was not acked
Restart ==
  /\ crashed
  /\ crashed' = FALSE
  /\ hashes' = hashes \o Unacked(HashWs, 1)
  /\ files' = files \o Unacked(FileWs, 1)
  /\ worker' = [w \in Workers |-> IdleW]
  /\ UNCHANGED <<index, events, okDone, fsize, firstCrawls, sup>>

(* ---------------------------- specification ---------------------------- *)

Next ==
  \/ \E h \in Roots : add(h)
  \/ \E w \in Workers : Finish(w)
  \/ \E w \in Workers : RefWrite(w)
  \/ \E w \in HashWs : CrawlHashStart(w)
  \/ \E w \in HashWs : CrawlHashList(w)
  \/ \E w \in Workers : Panic(w)
  \/ \E w \in HashWs : CrawlHashFile(w)
  \/ \E w \in HashWs : CrawlHashLink(w)
  \/ \E w \in HashWs : CrawlHashIndex(w)
  \/ \E w \in FileWs : CrawlFileStart(w)
  \/ \E w \in FileWs : CrawlFileMeta(w)
  \/ \E w \in FileWs : CrawlFileIndex(w)
  \/ Restart

Spec == Init /\ [][Next]_vars

(* ------------------------- crawl without faults ------------------------ *)

\* main.go:72-101: the root tasks that `add` has published, in order
RootTasks ==
  UNION { { [k \in 1..n |-> Args(r[k], "", 0, "")] : r \in [1..n -> Roots] } : n \in 1..MaxRoots }

\* the crawl started on a queue of root tasks, with a gateway, an extractor, an
\* index and a broker that never fail (the budget of events is used up)
InitLive ==
  /\ hashes \in RootTasks
  /\ files = << >>
  /\ index = [h \in Hashes |-> NoDoc]
  /\ worker = [w \in Workers |-> IdleW]
  /\ crashed = FALSE
  /\ events = MaxEvents
  /\ okDone = {}
  /\ fsize \in FileSizes
  /\ firstCrawls = [h \in Hashes |-> 0]
  /\ sup = Running

\* main.go:137-191: what the goroutine of one consumer does next
WorkerStep(w) ==
  \/ Finish(w)
  \/ RefWrite(w)
  \/ CrawlHashStart(w)
  \/ CrawlHashList(w)
  \/ CrawlHashFile(w)
  \/ CrawlHashLink(w)
  \/ CrawlHashIndex(w)
  \/ CrawlFileStart(w)
  \/ CrawlFileMeta(w)
  \/ CrawlFileIndex(w)

NextLive == \E w \in Workers : WorkerStep(w)

\* every consumer is a goroutine of its own that the scheduler keeps running,
\* and the broker hands a waiting task to a consumer that is free
SpecLive == InitLive /\ [][NextLive]_vars /\ \A w \in Workers : WF_vars(WorkerStep(w))

(* ----------------------------- supervisor ------------------------------ *)

crawlVars == <<hashes, files, index, worker, crashed, okDone, fsize, firstCrawls>>

\* the supervisor before New is called, for a configuration
SupInit(h, f) ==
  [pc |-> "New", cfg |-> [HashWorkers |-> h, FileWorkers |-> f],
   opened |-> 0, addCh |-> 0, declared |-> << >>, openChannels |-> << >>,
   name |-> "", ch |-> 0, i |-> 0, consumers |-> << >>, ret |-> "none",
   k |-> 0, closeCalls |-> {}, closeErr |-> FALSE, by |-> ""]

\* the two queues the crawler publishes to
PublishQueues == <<"hashes", "files">>

\* queue.NewChannel: a channel that no one else holds (channels are numbered
\* in the order they are opened)
NewChannel(opened) == opened + 1

\* part_000:159 and 164, or the owner of the worker: Close is called
EnterClose(s, by) == [s EXCEPT !.pc = "Close", !.k = 1, !.by = by]

\* part_000:57-62: New opens the channel the crawler publishes on
New ==
  /\ sup.pc = "New"
  /\ \E ok \in BOOLEAN :
       /\ MayFail(ok)
       /\ events' = Spend(ok)
       /\ sup' = IF ok
                   THEN [sup EXCEPT !.opened = NewChannel(sup.opened),
                                    !.addCh = NewChannel(sup.opened),
                                    !.pc = "newCrawler"]
                   ELSE [sup EXCEPT !.pc = "returned", !.ret = "err"]
  /\ UNCHANGED crawlVars

\* part_000:21-34 and 64-73: one queue is declared on addCh; a failure closes
\* addCh and no worker is made; after the second queue the worker is built
newCrawler ==
  /\ sup.pc = "newCrawler"
  /\ \E ok \in BOOLEAN :
       /\ MayFail(ok)
       /\ events' = Spend(ok)
       /\ sup' = IF ~ok
                   THEN [sup EXCEPT !.closeCalls = @ \cup {sup.addCh},
                                    !.pc = "returned", !.ret = "err"]
                   ELSE LET d == Append(sup.declared, PublishQueues[Len(sup.declared) + 1]) IN
                        IF d = PublishQueues
                          THEN [sup EXCEPT !.declared = d, !.openChannels = << sup.addCh >>,
                                           !.pc = "ready"]
                          ELSE [sup EXCEPT !.declared = d]
  /\ UNCHANGED crawlVars

\* part_000:156-157: Start begins with the hash workers
Start ==
  /\ sup.pc = "ready"
  /\ sup' = [sup EXCEPT !.pc = "startHashWorkers", !.i = 0, !.name = "hashes"]
  /\ UNCHANGED <<crawlVars, events>>

\* workerQueue consuming on the channel the crawler publishes on
workerQueue_AddCh(s) ==
  [s EXCEPT !.ch = s.addCh, !.openChannels = Append(@, s.addCh), !.pc = "workerQueue"]

\* part_000:93-97: workerQueue has opened a channel of its own and recorded it
workerQueue(s) ==
  [s EXCEPT !.opened = NewChannel(s.opened),
            !.ch = NewChannel(s.opened),
            !.openChannels = Append(@, NewChannel(s.opened)),
            !.pc = "workerQueue"]

\* part_000:108-113 and 128, 162: one round of the loop of startHashWorkers, up
\* to the channel of workerQueue
startHashWorkers ==
  /\ sup.pc = "startHashWorkers"
  /\ IF sup.i < sup.cfg.HashWorkers
       THEN \E ok \in BOOLEAN :
              /\ MayFail(ok)
              /\ events' = Spend(ok)
              /\ sup' = IF ok THEN workerQueue(sup) ELSE EnterClose(sup, "Start")
       ELSE /\ events' = events
            /\ sup' = [sup EXCEPT !.pc = "startFileWorkers", !.i = 0, !.name = "files"]
  /\ UNCHANGED crawlVars

\* part_000:132-137 and 152, 168: one round of the loop of startFileWorkers
startFileWorkers ==
  /\ sup.pc = "startFileWorkers"
  /\ IF sup.i < sup.cfg.FileWorkers
       THEN \E ok \in BOOLEAN :
              /\ MayFail(ok)
              /\ events' = Spend(ok)
              /\ sup' = IF ok THEN workerQueue(sup) ELSE EnterClose(sup, "Start")
       ELSE /\ events' = events
            /\ sup' = [sup EXCEPT !.pc = "started", !.ret = "nil"]
  /\ UNCHANGED crawlVars

\* part_000:99-104, then 115-125 or 139-149: the queue is declared on the
\* channel and the consumer is started on it
StartConsumer ==
  /\ sup.pc = "workerQueue"
  /\ \E ok \in BOOLEAN :
       /\ MayFail(ok)
       /\ events' = Spend(ok)
       /\ sup' = IF ok
                   THEN [sup EXCEPT !.consumers = Append(@, [queue |-> sup.name, ch |-> sup.ch]),
                                    !.i = @ + 1,
                                    !.pc = IF sup.name = "hashes" THEN "startHashWorkers"
                                                                 ELSE "startFileWorkers"]
                   ELSE EnterClose(sup, "Start")
  /\ UNCHANGED crawlVars

\* part_000:172-181: one round of the loop of Close, which returns at the first
\* channel whose Close returns an error; Start then returns its own error (an
\* error of channel.Close ends the loop, so it may come after any other fault)
Close ==
  /\ sup.pc \in {"started", "Close"}
  /\ LET s == IF sup.pc = "started" THEN EnterClose(sup, "caller") ELSE sup
         ret == IF s.by = "Start" THEN "err" ELSE s.ret IN
     IF s.k > Len(s.openChannels)
       THEN /\ events' = events
            /\ sup' = [s EXCEPT !.pc = "closed", !.ret = ret]
       ELSE \E ok \in BOOLEAN :
              /\ events' = events
              /\ sup' = IF ok
                          THEN [s EXCEPT !.closeCalls = @ \cup {s.openChannels[s.k]},
                                         !.k = @ + 1]
                          ELSE [s EXCEPT !.closeCalls = @ \cup {s.openChannels[s.k]},
                                         !.closeErr = TRUE, !.pc = "closed", !.ret = ret]
  /\ UNCHANGED crawlVars

InitWorker ==
  /\ hashes = << >>
  /\ files = << >>
  /\ index = [h \in Hashes |-> NoDoc]
  /\ worker = [w \in Workers |-> IdleW]
  /\ crashed = FALSE
  /\ events = 0
  /\ okDone = {}
  /\ fsize = 0
  /\ firstCrawls = [h \in Hashes |-> 0]
  /\ \E h \in 0..MaxWorkers, f \in 0..MaxWorkers : sup = SupInit(h, f)

NextWorker ==
  \/ New
  \/ newCrawler
  \/ Start
  \/ startHashWorkers
  \/ startFileWorkers
  \/ StartConsumer
  \/ Close

SpecWorker == InitWorker /\ [][NextWorker]_vars

(* ------------------------------- claims -------------------------------- *)

\* the references stored for a hash
StoredRefs(idx, h) ==
  IF idx[h].exists /\ "references" \in DOMAIN idx[h].fields
    THEN idx[h].fields["references"] ELSE << >>

\* the tasks CrawlHash publishes for the links of a directory, in order
RECURSIVE FanOut(_, _, _)
FanOut(hash, links, k) ==
  IF k > Len(links) THEN << >>
  ELSE (CASE links[k].Type = "File" ->
               << [queue |-> "files",
                   args |-> Args(links[k].Hash, links[k].Name, links[k].Size, hash)] >>
          [] links[k].Type = "Directory" ->
               << [queue |-> "hashes",
                   args |-> Args(links[k].Hash, links[k].Name, links[k].Size, hash)] >>
          [] OTHER -> << >>) \o FanOut(hash, links, k + 1)

\* the publishes of a task, without their results
Attempts(pubs) == [k \in DOMAIN pubs |-> [queue |-> pubs[k].queue, args |-> pubs[k].args]]

\* the listing of the hash a worker crawls
ListOf(st) == FileList(st.args.Hash, fsize)

\* the worker has the directory listing of its hash and is through with the links
LinksDone(st) ==
  /\ ListOf(st).Type = "Directory"
  /\ st.i > Len(ListOf(st).Links)

\* C1 as claimed: a delivery of a task (hash, parent_hash) of which an earlier
\* delivery completed without error makes no gateway list call and no extractor
\* call
C1_RedeliveryMakesNoCall ==
  \A w \in Workers : worker[w].again => worker[w].calls = 0

\* C1 amended: a delivery (hence any re-delivery) of a task whose hash has a
\* document in the index when the crawl starts makes no gateway list call and
\* no extractor call
C1_NoCallOnceIndexed ==
  \A w \in Workers : worker[w].hadDoc => worker[w].calls = 0

\* a re-delivery of a task that completed before, on a hash that has a document,
\* has returned
C1_Witness ==
  \E w \in Workers :
    /\ worker[w].pc = "done"
    /\ worker[w].again
    /\ worker[w].hadDoc
    /\ worker[w].err = NoErr

\* C2: when GetReferences returns a document for the hash, the crawl stops with
\* no gateway call, no extractor call and no publish; it writes nothing if the
\* task has no parent or a stored reference has its parent, and otherwise makes
\* exactly one upsert, of the stored type and of the stored references with
\* {name, parent_hash} appended; already_indexed is reported unless that upsert
\* fails
C2_DedupOnExistingDocument ==
  \A w \in Workers :
    LET st == worker[w]
        known == st.args.ParentHash = "" \/ st.args.ParentHash \in ParentsOf(st.stored)
        upsert == Write(st.itemType, st.args.Hash,
                        "references" :> Append(st.stored,
                                               Reference(st.args.Name, st.args.ParentHash)),
                        TRUE)
    IN st.found =>
         /\ st.calls = 0
         /\ st.pubs = << >>
         /\ st.pc \in {"refwrite", "done"}
         /\ known => st.pc = "done" /\ st.writes = << >> /\ st.alreadyIndexed
                                    /\ st.err = NoErr
         /\ (~known /\ st.pc = "refwrite") => st.writes = << >>
         /\ (~known /\ st.pc = "done") =>
              /\ Len(st.writes) = 1
              /\ [st.writes[1] EXCEPT !.ok = TRUE] = upsert
              /\ st.writes[1].ok => st.alreadyIndexed /\ st.err = NoErr
              /\ ~st.writes[1].ok => st.err = IndexErr

\* a task has added its reference to the references of an existing document
C2_Witness ==
  \E w \in Workers :
    /\ worker[w].pc = "done"
    /\ worker[w].found
    /\ worker[w].stored # << >>
    /\ Len(worker[w].writes) = 1
    /\ worker[w].writes[1].ok
    /\ StoredRefs(index, worker[w].args.Hash) =
         Append(worker[w].stored, Reference(worker[w].args.Name, worker[w].args.ParentHash))

\* C3 as claimed: a reference stored on a document is stored on it at every
\* later time
C3_ReferencesOnlyGrow ==
  [][\A h \in Hashes :
       RefSet(StoredRefs(index, h)) \subseteq RefSet(StoredRefs(index', h))]_vars

\* C4: no two references of a document have the same parent_hash
C4_OneReferencePerParent ==
  \A h \in Hashes :
    \A j, k \in DOMAIN StoredRefs(index, h) :
      StoredRefs(index, h)[j].ParentHash = StoredRefs(index, h)[k].ParentHash => j = k

\* a task whose parent is referenced already under another name has returned,
\* and the document has references of two parents
C4_Witness ==
  \E w \in Workers :
    /\ worker[w].pc = "done"
    /\ worker[w].err = NoErr
    /\ worker[w].found
    /\ \E k \in DOMAIN worker[w].stored :
         /\ worker[w].stored[k].ParentHash = worker[w].args.ParentHash
         /\ worker[w].stored[k].Name # worker[w].args.Name
    /\ Cardinality(ParentsOf(StoredRefs(index, worker[w].args.Hash))) >= 2

\* C5 as claimed: a type file or directory is never changed, and a type invalid
\* is never changed
C5_TypeNeverChanges ==
  [][\A h \in Hashes :
       index[h].type \in {"file", "directory", "invalid"} =>
         index'[h].type = index[h].type]_vars

\* the directory document is about to be written or has been written by the task
DirectoryWrite(st) ==
  \/ st.pc = "indexdir"
  \/ \E k \in DOMAIN st.writes : "links" \in DOMAIN st.writes[k].properties

\* C6: in CrawlHash the directory document is written only after a publish has
\* been attempted for every File and Directory link of the listing
C6_ChildrenBeforeDirectory ==
  \A w \in HashWs :
    DirectoryWrite(worker[w]) =>
      Attempts(worker[w].pubs) =
        FanOut(worker[w].args.Hash, ListOf(worker[w]).Links, 1)

\* a directory document has been written after the publishes of its links
C6_Witness ==
  \E w \in HashWs :
    /\ worker[w].pc = "done"
    /\ \E k \in DOMAIN worker[w].writes :
         /\ "links" \in DOMAIN worker[w].writes[k].properties
         /\ worker[w].writes[k].ok
    /\ Len(worker[w].pubs) >= 2

\* C7 as claimed: when a publish of CrawlHash fails, CrawlHash returns an error,
\* publishes no further task and does not write the directory document
C7_PublishFailureAborts ==
  \A w \in HashWs :
    \A k \in DOMAIN worker[w].pubs :
      ~worker[w].pubs[k].ok =>
        /\ k = Len(worker[w].pubs)
        /\ worker[w].pc = "done"
        /\ worker[w].err # NoErr
        /\ ~DirectoryWrite(worker[w])

\* C8 as claimed: when CrawlHash has returned without error on a directory
\* listing, it has published one task per File link to the files queue and one
\* per Directory link to the hashes queue, with the hash, name and size of the
\* link and the directory as parent, and nothing else
C8_DirectoryFanOut ==
  \A w \in HashWs :
    (worker[w].pc = "done" /\ worker[w].err = NoErr /\ LinksDone(worker[w])) =>
      /\ Attempts(worker[w].pubs) =
           FanOut(worker[w].args.Hash, ListOf(worker[w]).Links, 1)
      /\ \A k \in DOMAIN worker[w].pubs : worker[w].pubs[k].ok

\* C9: a CrawlHash task without parent whose listing is a directory of size
\* 262144 writes no document; once its links are handled it has attempted the
\* publish of every child and returns success. With a parent, the task then
\* makes the one upsert of the directory document, with links, size and
\* references
C9_DirectoryPartialGuard ==
  \A w \in HashWs :
    LET st == worker[w]
        list == ListOf(st)
        props == ("links" :> list.Links) @@ ("size" :> list.Size)
                   @@ ("references" :> << Reference(st.args.Name, st.args.ParentHash) >>)
    IN (list.Type = "Directory" /\ list.Size = partialSize /\ st.i >= 1) =>
         /\ st.args.ParentHash = "" =>
              /\ st.writes = << >>
              /\ st.pc # "indexdir"
              /\ LinksDone(st) =>
                   /\ st.pc = "done"
                   /\ st.err = NoErr
                   /\ Attempts(st.pubs) = FanOut(st.args.Hash, list.Links, 1)
         /\ (st.args.ParentHash # "" /\ LinksDone(st)) =>
              /\ st.pc \in {"indexdir", "done"}
              /\ st.pc = "done" =>
                   /\ Len(st.writes) = 1
                   /\ [st.writes[1] EXCEPT !.ok = TRUE] =
                        Write("directory", st.args.Hash, props, TRUE)
                   /\ st.writes[1].ok => st.err = NoErr

\* a root task on the directory of size 262144 has returned: its children are
\* published, and there is no document
C9_Witness ==
  \E w \in HashWs :
    /\ worker[w].pc = "done"
    /\ worker[w].err = NoErr
    /\ worker[w].args = Args("e", "", 0, "")
    /\ LinksDone(worker[w])
    /\ Len(worker[w].pubs) = 2
    /\ \A k \in DOMAIN worker[w].pubs : worker[w].pubs[k].ok
    /\ ~index["e"].exists

\* C10: CrawlFile on a task of size 262144 without parent returns success with
\* no index read, no index write, no extractor call and no publish; with a
\* parent the task reads the references and, the hash having no document, asks
\* the extractor and makes the one upsert of the file document
C10_FilePartialGuard ==
  \A w \in FileWs :
    LET st == worker[w]
        props == ("size" :> st.args.Size)
                   @@ ("references" :> << Reference(st.args.Name, st.args.ParentHash) >>)
                   @@ Extracted
    IN (st.pc # "idle" /\ st.args.Size = partialSize) =>
         /\ st.args.ParentHash = "" =>
              /\ st.pc = "done"
              /\ st.err = NoErr
              /\ st.reads = 0
              /\ st.writes = << >>
              /\ st.calls = 0
              /\ st.pubs = << >>
         /\ st.args.ParentHash # "" =>
              /\ st.reads = 1
              /\ (st.pc = "done" /\ st.err = NoErr /\ ~st.found) =>
                   /\ st.calls >= 1
                   /\ st.writes = << Write("file", st.args.Hash, props, TRUE) >>

\* a file task of size 262144 without parent has returned, and the hash has no
\* document
C10_Witness ==
  \E w \in FileWs :
    /\ worker[w].pc = "done"
    /\ worker[w].args = Args("f", "", partialSize, "")
    /\ ~index["f"].exists

\* the worker crawls a hash for which its read of the index found no document
FirstCrawl(st) == st.pc # "idle" /\ st.readOk /\ ~st.found

\* C11: a CrawlFile task of size > 52428800 on a hash without document returns
\* the "too large" error with no extractor call and no upsert, and the index
\* never holds a file document for a file of that size; a task of size
\* 52428800 passes the gate, asks the extractor and is indexed
C11_FileSizeGate ==
  /\ \A w \in FileWs :
       LET st == worker[w] IN
       /\ (FirstCrawl(st) /\ st.args.Size > metadataMaxSize) =>
            /\ st.pc = "done"
            /\ st.err = TooLargeErr
            /\ st.calls = 0
            /\ st.writes = << >>
       /\ (FirstCrawl(st) /\ st.args.Size = metadataMaxSize) =>
            /\ st.err # TooLargeErr
            /\ st.pc \in {"meta", "indexfile", "done"}
            /\ (st.pc = "done" /\ st.err = NoErr) =>
                 /\ st.calls >= 1
                 /\ Len(st.writes) = 1
                 /\ st.writes[1].type = "file"
                 /\ st.writes[1].properties["size"] = metadataMaxSize
  /\ fsize > metadataMaxSize => index["f"].type # "file"

\* a file task of size 52428801 on a hash without document has been rejected
C11_Witness ==
  \E w \in FileWs :
    /\ worker[w].pc = "done"
    /\ worker[w].args.Size = metadataMaxSize + 1
    /\ worker[w].readOk
    /\ worker[w].err = TooLargeErr
    /\ ~index[worker[w].args.Hash].exists

\* C12: a CrawlFile task of size 0 on a hash without document makes no extractor
\* call and exactly one upsert, of type file, whose properties are size = 0 and
\* the references and nothing else
C12_EmptyFile ==
  \A w \in FileWs :
    LET st == worker[w] IN
    (FirstCrawl(st) /\ st.args.Size = 0) =>
      /\ st.calls = 0
      /\ st.pc \in {"indexfile", "done"}
      /\ st.pc = "indexfile" => st.writes = << >>
      /\ st.pc = "done" =>
           /\ Len(st.writes) = 1
           /\ [st.writes[1] EXCEPT !.ok = TRUE] =
                Write("file", st.args.Hash,
                      ("size" :> 0) @@ ("references" :> st.references.list), TRUE)
           /\ DOMAIN st.writes[1].properties = {"size", "references"}
           /\ st.references.list =
                (IF st.args.ParentHash = "" THEN << >>
                 ELSE << Reference(st.args.Name, st.args.ParentHash) >>)

\* a file task of size 0 with a parent has indexed its hash
C12_Witness ==
  \E w \in FileWs :
    /\ worker[w].pc = "done"
    /\ worker[w].args.Size = 0
    /\ worker[w].args.ParentHash # ""
    /\ FirstCrawl(worker[w])
    /\ worker[w].err = NoErr
    /\ index[worker[w].args.Hash].type = "file"
    /\ DOMAIN index[worker[w].args.Hash].fields = {"size", "references"}

\* the task has upserted its hash as invalid
MarkedInvalid(st) == \E k \in DOMAIN st.writes : st.writes[k].type = "invalid"

\* C13 as claimed: after a gateway protocol error the task upserts its hash as
\* invalid and returns the error to its consumer; the process does not crash
\* and the other consumers keep running
C13_ProtocolErrorReturns ==
  /\ ~crashed
  /\ \A w \in Workers :
       MarkedInvalid(worker[w]) => worker[w].pc = "done" /\ worker[w].err.proto

\* the task is between two attempts of its retry loop, or before the first
InLoop(st) == st.pc \in {"list", "meta"}

\* the errors the claims call retryable
Retryable(e) ==
  /\ e.kind = "url"
  /\ ~e.timeout
  /\ (e.temporary \/ e.inner = "op:dial" \/ e.inner = "op:read" \/ e.inner = "errno:ECONNREFUSED")

AllOk(log) == \A k \in DOMAIN log : log[k].ok

\* C17: the retry stays inside the task. Between the attempts the task has
\* published nothing, written nothing and not returned; after k retryable
\* failures and a success it has made k+1 calls, and it completes without error
\* when its publishes and its upsert succeed
C17_RetryInsideTask ==
  \A w \in Workers :
    LET st == worker[w] IN
    /\ InLoop(st) =>
         /\ st.calls = st.retries
         /\ st.pubs = << >> /\ st.writes = << >> /\ st.err = NoErr
    /\ st.retries > 0 => (InLoop(st) \/ st.calls > st.retries)
    /\ (st.calls > 0 /\ st.lastErr = NoErr) =>
         /\ ~InLoop(st)
         /\ st.calls = st.retries + 1
         /\ (st.pc = "done" /\ AllOk(st.pubs) /\ AllOk(st.writes)) => st.err = NoErr

C17_Witness ==
  \E w \in Workers :
    /\ worker[w].pc = "done" /\ worker[w].err = NoErr
    /\ worker[w].retries = 1 /\ worker[w].calls = 2
    /\ worker[w].pubs # << >> \/ worker[w].writes # << >>

\* C18: the classification of handleError. The call is made again exactly for
\* a retryable error; a timeout is returned even when it is flagged temporary;
\* nil ends the loop with the task going on; any other error that is no
\* protocol error is returned as it is, with nothing written
C18_ErrorClassification ==
  \A w \in Workers :
    LET st == worker[w]
        e == st.lastErr IN
    st.calls > 0 =>
      /\ InLoop(st) <=> Retryable(e)
      /\ (e.kind = "url" /\ e.timeout) =>
           st.pc = "done" /\ st.err = e /\ st.writes = << >>
      /\ e = NoErr => st.pc \in {"pubfile", "links", "indexdir", "indexfile", "done"}
      /\ (e # NoErr /\ ~Retryable(e) /\ ~(e.kind = "shell" /\ e.proto)) =>
           st.pc = "done" /\ st.err = e /\ st.writes = << >> /\ st.pubs = << >>

C18_Witness ==
  \E w \in Workers :
    /\ worker[w].pc = "done" /\ worker[w].calls = 1
    /\ worker[w].lastErr = Err("url", FALSE, TRUE, TRUE, "none")
    /\ worker[w].err = worker[w].lastErr

\* the gateway has answered the task's list call without error
Listed(st) == st.calls > 0 /\ st.lastErr = NoErr

\* C19: a listing of type File makes CrawlHash publish exactly one task
\* {hash, name, size of the listing, parent} to the files queue, nothing to the
\* hashes queue, and write no document; a listing that is neither File nor
\* Directory makes it publish nothing, write nothing and return nil
C19_FileAndOtherListing ==
  \A w \in HashWs :
    LET st == worker[w]
        list == ListOf(st) IN
    Listed(st) =>
      /\ list.Type = "File" =>
           /\ st.writes = << >>
           /\ st.pc \in {"pubfile", "done"}
           /\ st.pc = "pubfile" => st.pubs = << >>
           /\ st.pc = "done" =>
                /\ Attempts(st.pubs) =
                     << [queue |-> "files",
                         args |-> Args(st.args.Hash, st.args.Name, list.Size, st.args.ParentHash)] >>
                /\ st.err = IF st.pubs[1].ok THEN NoErr ELSE PublishErr
      /\ list.Type \notin {"File", "Directory"} =>
           st.pc = "done" /\ st.pubs = << >> /\ st.writes = << >> /\ st.err = NoErr

C19_Witness ==
  /\ worker["h1"].pc = "done" /\ Listed(worker["h1"])
  /\ worker["h1"].args.Hash = "f" /\ fsize = 10
  /\ worker["h1"].pubs = << Pub("files", Args("f", "", 10, ""), TRUE) >>
  /\ \E k \in DOMAIN files : files[k] = Args("f", "", 10, "")
  /\ ~index["f"].exists

\* C20: a first crawl of a file writes the document in one upsert of type file
\* that carries the extracted metadata, the size of the task and the references
\* together; before that upsert the task has written nothing, and no file
\* document of the index holds metadata without references or, for a file that
\* has content, references without metadata
C20_FileDocumentWhole ==
  /\ \A w \in FileWs :
       LET st == worker[w]
           refs == IF st.args.ParentHash = "" THEN << >>
                   ELSE << Reference(st.args.Name, st.args.ParentHash) >>
           whole == ("size" :> st.args.Size) @@ ("references" :> refs)
                      @@ (IF st.args.Size > 0 THEN Extracted ELSE << >>) IN
       FirstCrawl(st) =>
         /\ st.pc # "done" => st.writes = << >>
         /\ Len(st.writes) <= 1
         /\ st.writes # << >> =>
              /\ st.writes[1].type = "file" /\ st.writes[1].hash = st.args.Hash
              /\ st.writes[1].properties = whole
         /\ (st.pc = "done" /\ st.err = NoErr) => (Len(st.writes) = 1 /\ st.writes[1].ok)
  /\ \A h \in Hashes :
       (index[h].exists /\ index[h].type = "file") =>
         /\ {"size", "references"} \subseteq DOMAIN index[h].fields
         /\ index[h].fields["size"] > 0 <=> "title" \in DOMAIN index[h].fields

C20_Witness ==
  \E w \in FileWs :
    /\ worker[w].pc = "done" /\ FirstCrawl(worker[w]) /\ worker[w].err = NoErr
    /\ worker[w].args = Args("f", "a", 10, "d")
    /\ index["f"].type = "file"
    /\ index["f"].fields = ("size" :> 10) @@ ("references" :> << Reference("a", "d") >>)
                              @@ ("title" :> "T")

ConsumerChannels == {sup.consumers[k].ch : k \in DOMAIN sup.consumers}

\* the channels recorded in openChannels
OpenChannels == {sup.openChannels[k] : k \in DOMAIN sup.openChannels}

\* C15: once Start has returned nil, HashWorkers consumers of the hashes queue
\* have been started and after them FileWorkers consumers of the files queue;
\* no file consumer is ever started before a hash consumer; every consumer has
\* a channel that no other consumer has and that is not the channel New opened
\* for publishing, and all these channels are in openChannels
C15_StartStartsConsumers ==
  LET cs == sup.consumers
      H == sup.cfg.HashWorkers
      F == sup.cfg.FileWorkers IN
  /\ \A j, k \in DOMAIN cs : (j < k /\ cs[j].queue = "files") => cs[k].queue = "files"
  /\ sup.ret = "nil" =>
       /\ Len(cs) = H + F
       /\ \A k \in DOMAIN cs : cs[k].queue = IF k <= H THEN "hashes" ELSE "files"
       /\ \A j, k \in DOMAIN cs : j # k => cs[j].ch # cs[k].ch
       /\ sup.addCh \notin ConsumerChannels
       /\ ConsumerChannels \cup {sup.addCh} \subseteq OpenChannels

C15_Witness ==
  /\ sup.pc = "started" /\ sup.ret = "nil"
  /\ sup.cfg = [HashWorkers |-> MaxWorkers, FileWorkers |-> MaxWorkers]
  /\ Len(sup.consumers) = MaxWorkers + MaxWorkers
  /\ Cardinality(OpenChannels) = MaxWorkers + MaxWorkers + 1

\* C16 as claimed: after Close has returned, Close has been called on every
\* channel of openChannels, whether or not one of these calls returned an error
C16_CloseClosesEveryChannel ==
  sup.pc = "closed" => OpenChannels \subseteq sup.closeCalls

\* the upserts of a task that the index accepted
Stored(st) == {k \in DOMAIN st.writes : st.writes[k].ok}

\* C21: a task that starts on a hash without document and returns an error
\* that is no gateway protocol error has created no document: the index has
\* accepted no upsert of that task, its only upsert, if any, is the one whose
\* failure it returns, and an error that is no protocol error never makes the
\* task upsert the error for its hash
C21_IndexUnchangedOnFailure ==
  \A w \in Workers :
    LET st == worker[w] IN
    /\ (st.pc = "done" /\ st.err # NoErr /\ ~st.hadDoc) =>
         /\ Stored(st) = {}
         /\ st.writes # << >> => (st.err = IndexErr /\ Len(st.writes) = 1)
    /\ ~(st.lastErr.kind = "shell" /\ st.lastErr.proto) =>
         \A k \in DOMAIN st.writes : "error" \notin DOMAIN st.writes[k].properties

\* an upsert of the directory d has failed and its error has been returned;
\* d has no document
C21_Witness ==
  /\ worker["h1"].pc = "done" /\ worker["h1"].err = IndexErr
  /\ worker["h1"].args.Hash = "d" /\ ~worker["h1"].hadDoc
  /\ Len(worker["h1"].writes) = 1 /\ worker["h1"].pubs # << >>
  /\ ~index["d"].exists

\* C23 as claimed: when New fails while it declares a publish queue, Close has
\* been called on the publish channel; when Start returns an error, Close has
\* been called on every channel opened so far, the one whose queue could not
\* be declared included
C23_NoChannelLeakOnStartFailure ==
  /\ (sup.pc = "returned" /\ sup.addCh # 0) => sup.addCh \in sup.closeCalls
  /\ (sup.pc = "closed" /\ sup.by = "Start") => 1..sup.opened \subseteq sup.closeCalls

\* both queues are empty and no consumer holds a task
Quiet ==
  /\ hashes = << >> /\ files = << >>
  /\ \A w \in Workers : worker[w].pc = "idle"

\* C22: with collaborators that never fail and consumers that are scheduled
\* fairly, a crawl of root tasks over the acyclic links of FileList comes to
\* rest for good: both queues empty and no task in flight. Tasks are published
\* only by a task in flight, so only finitely many are ever published
C22_CrawlTerminates == <>[]Quiet

\* the crawl of the roots d and e has come to rest with both directories and
\* the file indexed
C22_Witness ==
  /\ Quiet
  /\ firstCrawls["d"] = 1 /\ firstCrawls["e"] = 1
  /\ index["d"].type = "directory" /\ index["e"].type = "directory"
  /\ index["f"].type = "file"
  /\ Len(StoredRefs(index, "f")) >= 2

====
